---- MODULE Spec2Model ----
(***************************************************************************)
(* Model of the ModMail cog (src/cogs/modmail.py): the per-user session    *)
(* mapping, its JSON snapshot, the per-user asyncio locks, and the         *)
(* coroutines that touch them (on_message, ConfirmView.confirm / cancel /  *)
(* on_timeout, reply_modmail, reply_modmail_slash, set_modmail_channel).   *)
(* Every coroutine is cut at its awaits: one action is the code that runs  *)
(* between two suspension points of the event loop.                        *)
(***************************************************************************)
EXTENDS Integers, Sequences, FiniteSets, TLC

\* ---------------------------------------------------------------- bounds
MaxInFlight == 2
MaxViews == 2
MaxTicks == 2
MaxPersistFailures == 1
MaxAnswers == 4

\* ------------------------------------------------------ program constants
RESET_DELAY_SECONDS == 600
max_retries == 3

\* the clock advances in steps of half the reset delay
TickSeconds == RESET_DELAY_SECONDS \div 2

Users == {7, 12}

\* modmail_channel_id: NoChannel is None, TextChannelId resolves to a text
\* channel, GoneChannelId is an id bot.get_channel cannot resolve
NoChannel == 0
TextChannelId == 100
GoneChannelId == 200
ChannelIds == {NoChannel, TextChannelId, GoneChannelId}

VARIABLES
    sessions,            \* ModMail.modmail_sessions : dict user_id -> record
    file,                \* contents of SESSIONS_FILE
    locks,               \* ModMail._session_locks : dict user_id -> asyncio.Lock
    modmail_channel_id,  \* ModMail.modmail_channel_id
    now,                 \* datetime.utcnow(), in seconds
    msgs,                \* on_message coroutines in flight
    views,               \* ConfirmView objects, keyed by the prompting message
    presses,             \* button callbacks in flight
    replies,             \* reply_modmail / reply_modmail_slash coroutines in flight
    persistFailures,     \* writes of the snapshot that raised so far
    scope,               \* who writes to the bot, and how many writes may fail
    ev,                  \* the last step: operation, user, result, deliveries
    io                   \* a helper followed on its own: its input and progress

vars == <<sessions, file, locks, modmail_channel_id, now, msgs, views,
          presses, replies, persistFailures,
          scope, ev, io>>

\* ------------------------------------------------------------ dict helpers
Put(d, k, v) == [x \in (DOMAIN d) \cup {k} |-> IF x = k THEN v ELSE d[x]]
Pop(d, k) == [x \in (DOMAIN d) \ {k} |-> d[x]]
EmptyDict == [x \in {} |-> 0]

\* ------------------------------------------------------------ timestamps
\* reset_at is None or an ISO-8601 string; the string is modelled by its
\* fields <<hours, minutes, seconds>>
NoTime == <<>>
isoformat(t) == <<t \div 3600, (t \div 60) % 60, t % 60>>
fromisoformat(s) == s[1] * 3600 + s[2] * 60 + s[3]

\* ------------------------------------------------------------ sessions
None == [state |-> "None", reset_at |-> NoTime]
\* variant: the first DM locks the session at once
OpenedLocked == [state |-> "locked", reset_at |-> NoTime]
OpenSession == [state |-> "open", reset_at |-> NoTime]
LockedSession == [state |-> "locked", reset_at |-> NoTime]
\* variant: resolved with no time to reset at
ResolvedUntimed(t) == [state |-> "resolved", reset_at |-> NoTime]

ResolvedSession(t) == [state |-> "resolved", reset_at |-> isoformat(t)]

\* modmail_sessions.get(user_id)
Get(d, k) == IF k \in DOMAIN d THEN d[k] ELSE None

\* --------------------------------------------------------- JSON snapshot
RECURSIVE str(_)
\* str(k): the decimal digits of a user id
str(k) == IF k < 10 THEN <<k>> ELSE Append(str(k \div 10), k % 10)

\* a character that is no digit stands as a number past 9
NonDigit == 10

\* int(s) returns: s is a string of digits; otherwise it raises ValueError
CanInt(s) == Len(s) > 0 /\ \A i \in 1..Len(s) : s[i] \in 0..9

\* variant: only the last digit counts
int_of_last_digit(s) == IF Len(s) = 0 THEN 0 ELSE s[Len(s)]

RECURSIVE int(_)
\* int(s): the integer a digit string denotes
int(s) == IF Len(s) = 0 THEN 0
          ELSE 10 * int(SubSeq(s, 1, Len(s) - 1)) + s[Len(s)]

\* {str(k): v for k, v in modmail_sessions.items()}
dumpable(d) ==
    [s \in {str(k) : k \in DOMAIN d} |-> d[CHOOSE k \in DOMAIN d : str(k) = s]]

MissingFile == [kind |-> "missing", data |-> EmptyDict]
PartialFile == [kind |-> "partial", data |-> EmptyDict]
JsonFile(d) == [kind |-> "json", data |-> dumpable(d)]

\* _load_sessions_from_file (lines 55-68), loading file f into the mapping
\* `into`: a missing file and a file json.load cannot read leave the mapping
\* alone; otherwise every key that int() accepts is stored with its value as
\* it stands, and every other key is skipped
_load_sessions_from_file(f, into) ==
    IF f.kind # "json" THEN into
    ELSE LET good == {s \in DOMAIN f.data : CanInt(s)} IN
         [k \in (DOMAIN into) \cup {int(s) : s \in good} |->
             IF \E s \in good : int(s) = k
             THEN f.data[CHOOSE s \in good : int(s) = k]
             ELSE into[k]]

\* outcomes of one call of _persist_sessions_to_file: the snapshot is
\* written; mkdir or open raises (file untouched); the write raises after
\* open("w") truncated the file.  Every exception is caught and logged.
PersistOutcomes == {"written", "not_opened", "write_failed"}

\* variant: a save that writes nothing
_persist_nothing(d, f, how) == f

_persist_sessions_to_file(d, f, how) ==
    CASE how = "written" -> JsonFile(d)
      [] how = "not_opened" -> f
      [] how = "write_failed" -> PartialFile

\* a write of the snapshot that ends `how`; how is "none" where the step
\* writes nothing
Persisting(how) ==
    /\ how \in PersistOutcomes \cup {"none"}
    /\ IF how \in {"not_opened", "write_failed"}
       THEN /\ persistFailures < scope.failures
            /\ persistFailures' = persistFailures + 1
       ELSE UNCHANGED persistFailures

\* ------------------------------------------------------------ deliveries
\* a message that reached its destination: dest is "staff" (the modmail
\* channel), "user" (a DM to `user`), or "mod" (the moderator who ran a
\* reply command); content names the user message it carries (the id of
\* the prompt's view), or is 0
Delivery(dest, user, kind, content) ==
    [dest |-> dest, user |-> user, kind |-> kind, content |-> content]

\* the record of a step: the handler, the user it concerns (0 when it
\* concerns nobody's session), what it came to, what it delivered, and the
\* user's session as it was before the step
Event(op, user, result, sent) ==
    [op |-> op, user |-> user, result |-> result, sent |-> sent,
     before |-> IF user \in DOMAIN sessions THEN sessions[user] ELSE None]

\* the record of a step that delivers nothing, changes no session and ends
\* no handler
Quiet == [op |-> "none", user |-> 0, result |-> "none", sent |-> {},
          before |-> None]

\* ------------------------------------------------------------ _send_with_retry
\* outcomes of one attempt of a send: delivered; HTTPException with status
\* 429; any other failure
SendOutcomes == {"ok", "throttled", "error"}

\* variant: a throttled attempt is always tried again
RetryWhileThrottled(o, attempt) == o = "throttled"

\* variant: any failure is tried again while attempts are left
RetryAnyFailure(o, attempt) == o # "ok" /\ attempt < max_retries - 1

\* line 44: the failure of attempt number `attempt` (from 0) is slept on and
\* tried again
ShouldRetry(o, attempt) == o = "throttled" /\ attempt < max_retries - 1

\* lines 40-52: the loop over range(max_retries), fed the outcomes of the
\* attempts in order.  Result: how the call ends ("ok", or the failure that
\* is raised) and the number of attempts made.
RECURSIVE RetryLoop(_, _)
RetryLoop(outs, attempt) ==
    LET o == outs[attempt + 1] IN
    IF o = "ok" THEN [result |-> "ok", attempts |-> attempt + 1]
    ELSE IF ShouldRetry(o, attempt) /\ attempt + 1 < Len(outs)
         THEN RetryLoop(outs, attempt + 1)
         ELSE [result |-> o, attempts |-> attempt + 1]

_send_with_retry(outs) == RetryLoop(outs, 0)

\* the runs of attempt outcomes a call can meet: every one is consumed
AttemptRuns ==
    {outs \in UNION {[1..n -> SendOutcomes] : n \in 1..max_retries} :
        /\ _send_with_retry(outs).attempts = Len(outs)
        /\ \A i \in 1..(Len(outs) - 1) : outs[i] = "throttled"}

\* a send awaited directly (interaction.response, ctx.send, followup)
SingleRuns == {<<o>> : o \in SendOutcomes}

\* how a send through the wrapper, and a send awaited directly, can end
RetriedResults == {_send_with_retry(outs).result : outs \in AttemptRuns}
SingleResults == {outs[1] : outs \in SingleRuns}

\* ------------------------------------------------------------ asyncio.Lock
FreeLock == [locked |-> FALSE, waiters |-> <<>>]

\* _session_locks.setdefault(user_id, asyncio.Lock()): a user's lock, made
\* free on first use (a key not yet in the dict stands for a free lock)
\* variant: one lock for everybody
SharedLock(u) == locks[CHOOSE w \in Users : \A x \in Users : w <= x]

LockOf(u) == locks[u]

\* variant: a lock that excludes nobody
AcquireAlways(l) == TRUE

\* Lock.acquire takes the lock without suspending only when it is free and
\* nobody is queued
CanAcquireNow(l) == ~l.locked /\ l.waiters = <<>>

\* variant: a lock that is never given back
ReleaseNever(u) == locks

\* Lock.release: the lock is free again; the first waiter is woken and takes
\* it when the loop next runs it
Release(u) == [locks EXCEPT ![u].locked = FALSE]

\* ------------------------------------------------------------ bookkeeping
InFlight == Cardinality(DOMAIN msgs) + Cardinality(DOMAIN presses)
            + Cardinality(DOMAIN replies)

\* the name a new coroutine or view gets: the first one not in use
FreshId(d) == CHOOSE i \in 1..(Cardinality(DOMAIN d) + 1) :
                 /\ i \notin DOMAIN d
                 /\ \A j \in 1..(i - 1) : j \in DOMAIN d

\* ------------------------------------------------------------ on_message
\* variant: every resolved session counts as expired
ExpiredWhenResolved(session) == session.state = "resolved"

\* variant: the session outlives the instant reset_at
ExpiredStrictly(session) ==
    /\ session.state = "resolved"
    /\ session.reset_at # NoTime
    /\ now > fromisoformat(session.reset_at)

\* lines 161-167: a resolved session whose reset_at has come
Expired(session) ==
    /\ session.state = "resolved"
    /\ session.reset_at # NoTime
    /\ now >= fromisoformat(session.reset_at)

\* variant: a locked session is prompted like an open one
BranchWithoutLock(session) ==
    CASE session = None -> "guideline"
      [] session.state \in {"resolved", "open", "locked"} -> "prompt"
      [] OTHER -> "nothing"

\* lines 178, 211, 222, 233: the branch on_message takes
Branch(session) ==
    CASE session = None -> "guideline"
      [] session.state = "resolved" -> "prompt"
      [] session.state = "open" -> "prompt"
      [] session.state = "locked" -> "locked"
      [] OTHER -> "nothing"

\* lines 158-176 and on to the first send: read the session, clear it when
\* it has expired, pick the branch
EnterLocked(m, u) ==
    LET session == Get(sessions, u)
        expired == Expired(session)
        seen == IF expired THEN None ELSE session
    IN  \E how \in IF expired THEN PersistOutcomes ELSE {"none"} :
        /\ Persisting(how)
        /\ sessions' = IF expired THEN Pop(sessions, u) ELSE sessions
        /\ file' = IF expired
                   THEN _persist_sessions_to_file(Pop(sessions, u), file, how)
                   ELSE file
        /\ msgs' = Put(msgs, m, [user |-> u, pc |-> "sending",
                                 branch |-> Branch(seen), cleared |-> expired])
        /\ ev' = IF expired THEN Event("on_message", u, "expired", {})
                 ELSE Quiet

\* a message reaches on_message (lines 148-157)
OnMessage(u, inGuild, isBot) ==
    /\ u \in scope.users
    /\ InFlight < MaxInFlight
    /\ LET m == FreshId(msgs) IN
       IF inGuild \/ isBot \/ modmail_channel_id = NoChannel
       THEN \* lines 149-152: return, nothing sent
            /\ ev' = Event("on_message", 0,
                           IF inGuild \/ isBot THEN "ignored"
                           ELSE "unconfigured", {})
            /\ UNCHANGED <<sessions, file, locks, msgs, persistFailures>>
       ELSE IF CanAcquireNow(LockOf(u))
       THEN /\ locks' = [locks EXCEPT ![u].locked = TRUE]
            /\ EnterLocked(m, u)
       ELSE /\ locks' = [locks EXCEPT ![u].waiters = Append(@, m)]
            /\ msgs' = Put(msgs, m, [user |-> u, pc |-> "waiting",
                                     branch |-> "nothing", cleared |-> FALSE])
            /\ ev' = Quiet
            /\ UNCHANGED <<sessions, file, persistFailures>>
    /\ UNCHANGED <<modmail_channel_id, now, views, presses, replies>>
    /\ UNCHANGED <<scope, io>>

\* a queued on_message is woken by the release of its user's lock
OnMessageResume(m) ==
    /\ m \in DOMAIN msgs
    /\ msgs[m].pc = "waiting"
    /\ LET u == msgs[m].user IN
       /\ ~locks[u].locked
       /\ locks[u].waiters # <<>>
       /\ Head(locks[u].waiters) = m
       /\ locks' = [locks EXCEPT ![u] = [locked |-> TRUE,
                                         waiters |-> Tail(locks[u].waiters)]]
       /\ EnterLocked(m, u)
    /\ UNCHANGED <<modmail_channel_id, now, views, presses, replies>>
    /\ UNCHANGED <<scope, io>>

\* ConfirmView.__init__: the view of a confirmation prompt
NewView(u) == [user |-> u, status |-> "active"]

\* on_message's send (through _send_with_retry) comes back
OnMessageSend(m, sent) ==
    /\ m \in DOMAIN msgs
    /\ msgs[m].pc = "sending"
    /\ sent \in RetriedResults
    /\ msgs[m].branch = "prompt" => Cardinality(DOMAIN views) < MaxViews
    /\ LET u == msgs[m].user
           branch == msgs[m].branch
       IN
       \E how \in IF sent = "ok" /\ branch = "guideline" THEN PersistOutcomes
                  ELSE {"none"} :
       /\ Persisting(how)
       /\ msgs' = Pop(msgs, m)
       /\ locks' = Release(u)
       /\ CASE sent # "ok" ->
              \* the locked branch swallows the failure (lines 241-242); the
              \* others let it leave the handler
              /\ ev' = Event("on_message", u, branch \o "_failed", {})
              /\ UNCHANGED <<sessions, file, views>>
         [] sent = "ok" /\ branch = "guideline" ->
              /\ sessions' = Put(sessions, u, OpenSession)
              /\ file' = _persist_sessions_to_file(
                            Put(sessions, u, OpenSession), file, how)
              /\ ev' = Event("on_message", u, "guideline",
                             {Delivery("user", u, "guideline", 0)})
              /\ UNCHANGED views
         [] sent = "ok" /\ branch = "prompt" ->
              /\ views' = Put(views, FreshId(views), NewView(u))
              /\ ev' = Event("on_message", u, "prompt",
                             {Delivery("user", u, "prompt", FreshId(views))})
              /\ UNCHANGED <<sessions, file>>
         [] sent = "ok" /\ branch = "locked" ->
              /\ ev' = Event("on_message", u, "locked",
                             {Delivery("user", u, "locked", 0)})
              /\ UNCHANGED <<sessions, file, views>>
    /\ UNCHANGED <<modmail_channel_id, now, presses, replies>>
    /\ UNCHANGED <<scope, io>>

\* ------------------------------------------------------------ ConfirmView
\* bot.get_channel(modmail_channel_id) is a discord.TextChannel
ChannelResolves(id) == id = TextChannelId

\* View.stop(): the view takes no more presses and its timer is cancelled
Stop(v) ==
    IF views[v].status = "active"
    THEN [views EXCEPT ![v].status = "finished"]
    ELSE views

\* a finished view (stopped or timed out) is dropped once no callback of it
\* is running any more
Collect(vs, ps) ==
    [v \in {w \in DOMAIN vs : \/ vs[w].status = "active"
                              \/ \E p \in DOMAIN ps : ps[p].view = w}
       |-> vs[v]]

\* variant: anybody may press
AnyUser(presser, user) == TRUE

\* lines 98, 136: only the user the prompt was sent to gets further
IsOriginalUser(presser, user) == presser = user

\* where confirm first suspends (lines 101-102): in the sends to the channel
\* when it resolves, else in the response to the user
ConfirmEntry == IF ChannelResolves(modmail_channel_id) THEN "relay"
                ELSE "respond"

\* a press of Yes ("confirm") or No ("cancel") on a live prompt is
\* dispatched: the callback runs up to its first await (lines 98-99,
\* 136-137)
Press(v, presser, button) ==
    /\ v \in DOMAIN views
    /\ views[v].status = "active"
    /\ InFlight < MaxInFlight
    /\ LET p == FreshId(presses)
           u == views[v].user
       IN
       IF ~IsOriginalUser(presser, u)
       THEN /\ ev' = Event("press", 0, "ignored", {})
            /\ UNCHANGED presses
       ELSE /\ presses' = Put(presses, p,
                 [view |-> v, user |-> u, presser |-> presser,
                  button |-> button, relayed |-> FALSE,
                  pc |-> IF button = "cancel" THEN "respond"
                         ELSE ConfirmEntry])
            /\ ev' = Quiet
    /\ UNCHANGED <<sessions, file, locks, modmail_channel_id, now, msgs, views,
                   replies, persistFailures>>
    /\ UNCHANGED <<scope, io>>

\* lines 128-132: persist the mapping, stop the view, callback over
ConfirmFinish(p, d, how, result, sent) ==
    /\ how # "none"
    /\ sessions' = d
    /\ file' = _persist_sessions_to_file(d, file, how)
    /\ views' = Collect(Stop(presses[p].view), Pop(presses, p))
    /\ presses' = Pop(presses, p)
    /\ ev' = Event("confirm", presses[p].user, result, sent)

\* the exception leaves the callback: nothing persisted, view not stopped
CallbackRaises(p, op, sent) ==
    /\ presses' = Pop(presses, p)
    /\ views' = Collect(views, Pop(presses, p))
    /\ ev' = Event(op, presses[p].user, "raised", sent)
    /\ UNCHANGED <<sessions, file>>

\* the sends of ConfirmView.confirm come back (lines 100-132).  At "relay"
\* the two sends to the channel (lines 109-110) are taken together: the
\* embed ends as `sent` says, the user-id line as `idSent`.
Confirm(p, sent) ==
    /\ p \in DOMAIN presses
    /\ presses[p].button = "confirm"
    /\ LET u == presses[p].user
           v == presses[p].view
           pc == presses[p].pc
           relay == Delivery("staff", u, "relay", v)
           relay_id == Delivery("staff", u, "relay_id", 0)
           last == pc = "rate_limited" \/ (pc = "respond" /\ sent = "ok")
       IN
       /\ sent \in IF pc = "relay" THEN RetriedResults ELSE SingleResults
       /\ \E idSent \in IF pc = "relay" /\ sent = "ok" THEN RetriedResults
                        ELSE {"ok"},
             how \in IF last THEN PersistOutcomes ELSE {"none"} :
          /\ Persisting(how)
          /\ CASE pc = "relay" /\ sent = "ok" /\ idSent = "ok" ->
                 /\ presses' = [presses EXCEPT ![p].pc = "respond",
                                               ![p].relayed = TRUE]
                 /\ ev' = Event("confirm", u, "relayed", {relay, relay_id})
                 /\ UNCHANGED <<sessions, file, views>>
            [] pc = "relay" /\ sent = "ok" /\ idSent = "throttled" ->
                 /\ presses' = [presses EXCEPT ![p].pc = "rate_limited",
                                               ![p].relayed = TRUE]
                 /\ ev' = Event("confirm", u, "throttled", {relay})
                 /\ UNCHANGED <<sessions, file, views>>
            [] pc = "relay" /\ sent = "ok" /\ idSent = "error" ->
                 CallbackRaises(p, "confirm", {relay})
            [] pc = "respond" /\ sent = "ok" ->
                 \* line 116 went through: line 118 locks the session
                 ConfirmFinish(p, Put(sessions, u, LockedSession), how,
                               "locked",
                               {Delivery("user", u, "message_sent", 0)})
            [] pc \in {"relay", "respond"} /\ sent = "throttled" ->
                 \* lines 119-125: tell the user, best effort
                 /\ presses' = [presses EXCEPT ![p].pc = "rate_limited"]
                 /\ ev' = Quiet
                 /\ UNCHANGED <<sessions, file, views>>
            [] pc \in {"relay", "respond"} /\ sent = "error" ->
                 CallbackRaises(p, "confirm", {})
            [] pc = "rate_limited" ->
                 ConfirmFinish(p, sessions, how, "rate_limited",
                               IF sent = "ok"
                               THEN {Delivery("user", u, "rate_limited", 0)}
                               ELSE {})
    /\ UNCHANGED <<locks, modmail_channel_id, now, msgs, replies>>
    /\ UNCHANGED <<scope, io>>

\* the awaited response of ConfirmView.cancel comes back (lines 138-145)
Cancel(p, outs) ==
    /\ p \in DOMAIN presses
    /\ presses[p].button = "cancel"
    /\ outs \in SingleRuns
    /\ IF _send_with_retry(outs).result = "ok"
       THEN /\ views' = Collect(Stop(presses[p].view), Pop(presses, p))
            /\ presses' = Pop(presses, p)
            /\ ev' = Event("cancel", presses[p].user, "cancelled",
                           {Delivery("user", presses[p].user, "cancelled", 0)})
            /\ UNCHANGED <<sessions, file>>
       ELSE CallbackRaises(p, "cancel", {})
    /\ UNCHANGED <<locks, modmail_channel_id, now, msgs, replies,
                   persistFailures>>
    /\ UNCHANGED <<scope, io>>

\* ConfirmView.on_timeout (lines 88-94).  The library calls it when the
\* view's 600 s window (line 83) has passed since the prompt or its last
\* press; the window is not measured here: a live view may time out at any
\* moment.
on_timeout(v, how) ==
    /\ v \in DOMAIN views
    /\ views[v].status = "active"
    /\ how \in PersistOutcomes
    /\ Persisting(how)
    /\ LET u == views[v].user IN
       /\ sessions' = Pop(sessions, u)
       /\ file' = _persist_sessions_to_file(Pop(sessions, u), file, how)
       /\ views' = Collect([views EXCEPT ![v].status = "finished"], presses)
       /\ ev' = Event("on_timeout", u, "timed_out", {})
    /\ UNCHANGED <<locks, modmail_channel_id, now, msgs, presses, replies>>
    /\ UNCHANGED <<scope, io>>

\* ------------------------------------------------------------ staff reply
\* the notice the except clauses send to the moderator (lines 296-305,
\* 378-390); its own send may fail too
ErrorNotice(u, failure, delivered) ==
    IF delivered
    THEN {Delivery("mod", u, IF failure = "throttled" THEN "rate_limited"
                             ELSE "failed", 0)}
    ELSE {}

\* reply_modmail (entry "prefix") or reply_modmail_slash (entry "slash") is
\* invoked; accepted is FALSE when the user lookup (prefix, lines 248-252)
\* or the permission check or defer (slash, lines 321-328) stops the command
Reply(u, entry, accepted) ==
    /\ u \in scope.users
    /\ InFlight < MaxInFlight
    /\ LET r == FreshId(replies) IN
       IF accepted
       THEN /\ replies' = Put(replies, r, [user |-> u, entry |-> entry,
                                           pc |-> "send_reply",
                                           mutated |-> FALSE])
            /\ ev' = Quiet
       ELSE /\ ev' = Event(entry, 0, "rejected", {})
            /\ UNCHANGED replies
    /\ UNCHANGED <<sessions, file, locks, modmail_channel_id, now, msgs, views,
                   presses, persistFailures>>
    /\ UNCHANGED <<scope, io>>

\* lines 273-274 and 348-349: the session a delivered reply leaves
Resolve(u) == Put(sessions, u, ResolvedSession(now + RESET_DELAY_SECONDS))

\* the channel note is sent (lines 287-289, 365-367)
Notifies == modmail_channel_id # NoChannel /\ ChannelResolves(modmail_channel_id)

\* what the sends after the write of the snapshot deliver: the note to the
\* channel (lines 290-295, 366-373), then the slash command's followup
\* (line 376); a failure skips what follows and ends in the error notice
ReplyTail(u, entry, noteSent, followSent, noticed) ==
    LET note == Delivery("staff", u, "resolved_note", 0)
        done == Delivery("mod", u, "reply_sent", 0)
        noted == IF Notifies THEN {note} ELSE {}
    IN  IF Notifies /\ noteSent # "ok" THEN ErrorNotice(u, noteSent, noticed)
        ELSE IF entry = "prefix" THEN noted
        ELSE IF followSent = "ok" THEN noted \cup {done}
        ELSE noted \cup ErrorNotice(u, followSent, noticed)

\* the sends of a reply command come back
ReplyStep(r, sent) ==
    /\ r \in DOMAIN replies
    /\ LET u == replies[r].user
           entry == replies[r].entry
           pc == replies[r].pc
           last == sent = "ok" /\ pc = "send_info"
       IN
       /\ sent \in IF pc = "ack" THEN SingleResults ELSE RetriedResults
       /\ \E how \in IF last THEN PersistOutcomes ELSE {"none"},
             noteSent \in IF last /\ Notifies THEN RetriedResults ELSE {"ok"},
             followSent \in IF last /\ entry = "slash" THEN SingleResults
                            ELSE {"ok"},
             noticed \in IF sent = "ok" /\ ~last THEN {TRUE} ELSE BOOLEAN :
          /\ Persisting(how)
          /\ CASE sent # "ok" ->
                 /\ replies' = Pop(replies, r)
                 /\ ev' = Event(entry, u, pc \o "_failed",
                                ErrorNotice(u, sent, noticed))
                 /\ UNCHANGED <<sessions, file>>
            [] sent = "ok" /\ pc = "send_reply" /\ entry = "prefix" ->
                 \* line 269 delivered; line 270 is awaited next
                 /\ replies' = [replies EXCEPT ![r].pc = "ack"]
                 /\ ev' = Event(entry, u, "replied",
                                {Delivery("user", u, "reply", 0)})
                 /\ UNCHANGED <<sessions, file>>
            [] sent = "ok" /\ pc = "send_reply" /\ entry = "slash" ->
                 \* line 346 delivered; lines 348-349 run before the next
                 \* await
                 /\ sessions' = Resolve(u)
                 /\ replies' = [replies EXCEPT ![r].pc = "send_info",
                                               ![r].mutated = TRUE]
                 /\ ev' = Event(entry, u, "replied",
                                {Delivery("user", u, "reply", 0)})
                 /\ UNCHANGED file
            [] sent = "ok" /\ pc = "ack" ->
                 \* line 270 delivered; lines 273-274
                 /\ sessions' = Resolve(u)
                 /\ replies' = [replies EXCEPT ![r].pc = "send_info",
                                               ![r].mutated = TRUE]
                 /\ ev' = Event(entry, u, "acked",
                                {Delivery("mod", u, "reply_sent", 0)})
                 /\ UNCHANGED file
            [] last ->
                 \* lines 281-295, 357-376: the info notice went out; write
                 \* the snapshot; then the sends that touch no state
                 /\ file' = _persist_sessions_to_file(sessions, file, how)
                 /\ replies' = Pop(replies, r)
                 /\ ev' = Event(entry, u, "informed",
                                {Delivery("user", u, "info", 0)}
                                  \cup ReplyTail(u, entry, noteSent, followSent,
                                                 noticed))
                 /\ UNCHANGED sessions
    /\ UNCHANGED <<locks, modmail_channel_id, now, msgs, views, presses>>
    /\ UNCHANGED <<scope, io>>

\* set_modmail_channel / set_modmail_channel_slash with a text channel
set_modmail_channel ==
    /\ modmail_channel_id # TextChannelId
    /\ modmail_channel_id' = TextChannelId
    /\ ev' = Quiet
    /\ UNCHANGED <<sessions, file, locks, now, msgs, views, presses, replies,
                   persistFailures>>
    /\ UNCHANGED <<scope, io>>

\* ------------------------------------------------------------ clock
Tick ==
    /\ now + TickSeconds <= MaxTicks * TickSeconds
    /\ now' = now + TickSeconds
    /\ ev' = Quiet
    /\ UNCHANGED <<sessions, file, locks, modmail_channel_id, msgs, views,
                   presses, replies, persistFailures>>
    /\ UNCHANGED <<scope, io>>

\* ------------------------------------------------------------ specification
\* no helper is followed on its own
NoCall == [helper |-> "none"]

\* no coroutine runs yet; Start is the state after ModMail.__init__ (lines
\* 26-36) with no sessions file
Idle ==
    /\ locks = [u \in Users |-> FreeLock]
    /\ persistFailures = 0
    /\ modmail_channel_id \in ChannelIds
    /\ now = 0
    /\ msgs = EmptyDict
    /\ views = EmptyDict
    /\ presses = EmptyDict
    /\ replies = EmptyDict
    /\ ev = Quiet

Start ==
    /\ sessions = EmptyDict
    /\ file = MissingFile
    /\ Idle

\* one user writes to the bot, the clock runs, and every write of the
\* snapshot succeeds
Init ==
    /\ Start
    /\ scope = [users |-> {CHOOSE u \in Users : \A w \in Users : u <= w},
                failures |-> 0]
    /\ io = NoCall

Next ==
    \/ \E u \in Users, g \in BOOLEAN, b \in BOOLEAN : OnMessage(u, g, b)
    \/ \E m \in DOMAIN msgs : OnMessageResume(m)
    \/ \E m \in DOMAIN msgs, sent \in SendOutcomes : OnMessageSend(m, sent)
    \/ \E v \in DOMAIN views, u \in Users, b \in {"confirm", "cancel"} :
          Press(v, u, b)
    \/ \E p \in DOMAIN presses, sent \in SendOutcomes : Confirm(p, sent)
    \/ \E p \in DOMAIN presses, outs \in SingleRuns : Cancel(p, outs)
    \/ \E v \in DOMAIN views, how \in PersistOutcomes : on_timeout(v, how)
    \/ \E u \in Users, e \in {"prefix", "slash"}, a \in BOOLEAN : Reply(u, e, a)
    \/ \E r \in DOMAIN replies, sent \in SendOutcomes : ReplyStep(r, sent)
    \/ set_modmail_channel
    \/ Tick

Spec == Init /\ [][Next]_vars

\* the clock stands still while writes of the snapshot may fail
InitStore ==
    /\ Start
    /\ scope = [users |-> {CHOOSE u \in Users : \A w \in Users : u <= w},
                failures |-> MaxPersistFailures]
    /\ io = NoCall

SpecStore == InitStore /\ [][Next]_vars

\* every user writes to the bot at will and nothing else happens: no press,
\* no timeout, no staff reply, no clock
InitDms ==
    /\ Start
    /\ scope = [users |-> Users, failures |-> 0]
    /\ io = NoCall

NextDms ==
    \/ \E u \in Users, g \in BOOLEAN, b \in BOOLEAN : OnMessage(u, g, b)
    \/ \E m \in DOMAIN msgs : OnMessageResume(m)
    \/ \E m \in DOMAIN msgs, sent \in SendOutcomes : OnMessageSend(m, sent)

SpecDms == InitDms /\ [][NextDms]_vars

\* every user writes to the bot at will and prompts time out.  Every send
\* comes back (each attempt returns, and _send_with_retry makes at most
\* max_retries of them), the event loop runs a woken waiter, and the
\* library fires the timeout of a live view; a send that has to wait for a
\* free view slot gets one again and again as views time out.
NextLive ==
    \/ \E u \in Users, g \in BOOLEAN, b \in BOOLEAN : OnMessage(u, g, b)
    \/ \E m \in DOMAIN msgs : OnMessageResume(m)
    \/ \E m \in DOMAIN msgs, sent \in SendOutcomes : OnMessageSend(m, sent)
    \/ \E v \in DOMAIN views, how \in PersistOutcomes : on_timeout(v, how)

Fairness ==
    /\ \A m \in 1..MaxInFlight : WF_vars(OnMessageResume(m))
    /\ \A m \in 1..MaxInFlight :
          SF_vars(\E sent \in SendOutcomes : OnMessageSend(m, sent))
    /\ \A v \in 1..MaxViews :
          WF_vars(\E how \in PersistOutcomes : on_timeout(v, how))

SpecLive == InitDms /\ [][NextLive]_vars /\ Fairness

\* ------------------------------------------------- _send_with_retry, stepwise
\* what send_func can answer to an attempt: SendOutcomes, with "error" an
\* HTTPException whose status is not 429 and "exception" anything else raised
Answers == SendOutcomes \cup {"exception"}

\* one call of _send_with_retry: outs[i] is what send_func answers to the
\* i-th attempt if it is made; attempt is the loop variable; made counts the
\* attempts, delivered the messages that reached the destination
NewCall(outs) ==
    [helper |-> "_send_with_retry", outs |-> outs, attempt |-> 0,
     pc |-> "attempt", made |-> 0, delivered |-> 0, raised |-> "none"]

\* lines 41-52: await send_func(...); return, sleep, or raise
SendAttempt ==
    /\ io.pc = "attempt"
    /\ LET o == io.outs[io.made + 1] IN
       io' = IF o = "ok"
             THEN [io EXCEPT !.pc = "returned", !.made = @ + 1,
                             !.delivered = @ + 1]
             ELSE IF ShouldRetry(o, io.attempt)
             THEN [io EXCEPT !.pc = "sleep", !.made = @ + 1]
             ELSE [io EXCEPT !.pc = "raised", !.made = @ + 1, !.raised = o]
    /\ UNCHANGED <<sessions, file, locks, modmail_channel_id, now, msgs, views,
                   presses, replies, persistFailures, scope, ev>>

\* lines 48, 40: asyncio.sleep returns and the for loop goes on; when
\* range(max_retries) is used up the function falls off its end
Backoff ==
    /\ io.pc = "sleep"
    /\ io' = IF io.attempt + 1 < max_retries
             THEN [io EXCEPT !.pc = "attempt", !.attempt = @ + 1]
             ELSE [io EXCEPT !.pc = "returned"]
    /\ UNCHANGED <<sessions, file, locks, modmail_channel_id, now, msgs, views,
                   presses, replies, persistFailures, scope, ev>>

\* one call of the wrapper, whatever send_func answers
InitRetry ==
    /\ Start
    /\ scope = [users |-> {}, failures |-> 0]
    /\ \E outs \in [1..MaxAnswers -> Answers] : io = NewCall(outs)

NextRetry ==
    \/ SendAttempt
    \/ Backoff

SpecRetry == InitRetry /\ [][NextRetry]_vars

\* ------------------------------------------------- the snapshot across a restart
\* sessions as the code writes them, and with reset_at set on any state
StoredSessions ==
    {[state |-> st, reset_at |-> t] :
        st \in {"open", "locked", "resolved"},
        t \in {NoTime, isoformat(RESET_DELAY_SECONDS)}}

\* values a hand-edited or damaged file can hold besides: a record with an
\* unknown state, and a value that is no JSON object
BadValues == {[state |-> "closed", reset_at |-> NoTime], [scalar |-> "locked"]}

\* keys a file can hold: the ids of the users as str() writes them, and a
\* key that is no integer
FileKeys == {str(u) : u \in Users} \cup {<<NonDigit>>}

\* values met in files: some as the code writes them, and the bad ones
FileValues ==
    {OpenSession, ResolvedSession(RESET_DELAY_SECONDS)} \cup BadValues

Mappings(keys, values) == UNION {[K -> values] : K \in SUBSET keys}

Files ==
    {MissingFile, PartialFile}
        \cup {[kind |-> "json", data |-> d] : d \in Mappings(FileKeys, FileValues)}

\* a session as the comment of lines 20-21 describes it
WellFormed(v) ==
    /\ DOMAIN v = {"state", "reset_at"}
    /\ v.state \in {"open", "locked", "resolved"}

\* the program may write its mapping (lines 70-79)
Save ==
    /\ io.phase = "running"
    /\ ~io.written
    /\ file' = _persist_sessions_to_file(sessions, file, "written")
    /\ io' = [io EXCEPT !.written = TRUE]
    /\ UNCHANGED <<sessions, locks, modmail_channel_id, now, msgs, views,
                   presses, replies, persistFailures, scope, ev>>

\* the process ends: a new process starts from the class attribute of line
\* 22, an empty dict; io.memory keeps what the old process held
Shutdown ==
    /\ io.phase = "running"
    /\ sessions' = EmptyDict
    /\ io' = [io EXCEPT !.phase = "down", !.memory = sessions]
    /\ UNCHANGED <<file, locks, modmail_channel_id, now, msgs, views,
                   presses, replies, persistFailures, scope, ev>>

\* ModMail.__init__ loads the file (lines 33-36)
Load ==
    /\ io.phase = "down"
    /\ sessions' = _load_sessions_from_file(file, sessions)
    /\ io' = [io EXCEPT !.phase = "loaded"]
    /\ UNCHANGED <<file, locks, modmail_channel_id, now, msgs, views,
                   presses, replies, persistFailures, scope, ev>>

\* a process holding any mapping of well-formed sessions, over any file
InitRestart ==
    /\ sessions \in Mappings(Users, StoredSessions)
    /\ file \in Files
    /\ Idle
    /\ scope = [users |-> {}, failures |-> 0]
    /\ io = [helper |-> "store", phase |-> "running", written |-> FALSE,
             memory |-> EmptyDict]

NextRestart ==
    \/ Save
    \/ Shutdown
    \/ Load

SpecRestart == InitRestart /\ [][NextRestart]_vars

\* ------------------------------------------- _persist_sessions_to_file, stepwise
\* files the program itself has written, or none yet
Snapshots ==
    {MissingFile} \cup {JsonFile(d) : d \in Mappings(Users, StoredSessions)}

\* line 76: mkdir or open raises and the file is as it was ("not_opened"),
\* or open("w") returns and has emptied the file
SaveOpen(how) ==
    /\ io.pc = "save"
    /\ IF how = "not_opened"
       THEN /\ file' = _persist_sessions_to_file(sessions, file, how)
            /\ io' = [io EXCEPT !.pc = "saved"]
       ELSE /\ file' = PartialFile
            /\ io' = [io EXCEPT !.pc = "dump"]
    /\ UNCHANGED <<sessions, locks, modmail_channel_id, now, msgs, views,
                   presses, replies, persistFailures, scope, ev>>

\* line 77: json.dump writes the mapping and the file is closed, or it
\* raises on the way; lines 78-79 catch and log
SaveDump(how) ==
    /\ io.pc = "dump"
    /\ file' = _persist_sessions_to_file(sessions, file, how)
    /\ io' = [io EXCEPT !.pc = "saved"]
    /\ UNCHANGED <<sessions, locks, modmail_channel_id, now, msgs, views,
                   presses, replies, persistFailures, scope, ev>>

\* the process dies wherever it stands; what it held in memory is gone
Crash ==
    /\ io.pc \in {"save", "dump", "saved"}
    /\ sessions' = EmptyDict
    /\ io' = [io EXCEPT !.pc = "down", !.at = io.pc]
    /\ UNCHANGED <<file, locks, modmail_channel_id, now, msgs, views,
                   presses, replies, persistFailures, scope, ev>>

\* the next process loads the file (lines 33-36)
Restart ==
    /\ io.pc = "down"
    /\ sessions' = _load_sessions_from_file(file, sessions)
    /\ io' = [io EXCEPT !.pc = "loaded"]
    /\ UNCHANGED <<file, locks, modmail_channel_id, now, msgs, views,
                   presses, replies, persistFailures, scope, ev>>

\* a process about to save its mapping over the snapshot of an earlier one;
\* io remembers both
InitSave ==
    /\ sessions \in Mappings(Users, StoredSessions)
    /\ file \in Snapshots
    /\ Idle
    /\ scope = [users |-> {}, failures |-> 0]
    /\ io = [helper |-> "_persist_sessions_to_file", pc |-> "save",
             at |-> "none", previous |-> file, mapping |-> sessions]

NextSave ==
    \/ \E how \in {"not_opened", "written"} : SaveOpen(how)
    \/ \E how \in {"written", "write_failed"} : SaveDump(how)
    \/ Crash
    \/ Restart

SpecSave == InitSave /\ [][NextSave]_vars

----------------------------------------------------------------------------
\* What a step shows of the handlers

\* the step in which DM m gets past the lock and the expiry check
Entered(m) ==
    /\ m \in DOMAIN msgs'
    /\ msgs'[m].pc = "sending"
    /\ m \notin DOMAIN msgs \/ msgs[m].pc = "waiting"

\* the step in which DM m's handler returns
Ended(m) == m \in DOMAIN msgs /\ m \notin DOMAIN msgs'

\* the step in which the callback of press p returns or raises
PressEnded(p) == p \in DOMAIN presses /\ p \notin DOMAIN presses'

\* the step in which staff reply r returns
ReplyEnded(r) == r \in DOMAIN replies /\ r \notin DOMAIN replies'

\* what the step hands to the staff channel
StaffDeliveries == {d \in ev'.sent : d.dest = "staff"}

StateOf(d, u) == IF u \in DOMAIN d THEN d[u].state ELSE "None"

\* nobody's session but u's differs
OnlyChanges(u) ==
    \A w \in Users \ {u} :
        /\ w \in DOMAIN sessions' <=> w \in DOMAIN sessions
        /\ w \in DOMAIN sessions => sessions'[w] = sessions[w]

\* unless the write failed, the snapshot on disk is the mapping as it stands
\* after the step
Persisted == persistFailures' = persistFailures => file' = JsonFile(sessions')

\* the step sends user u the guideline notice and nothing else, and leaves u
\* with a fresh OPEN session, written to disk
OpensWithGuideline(u) ==
    /\ ev'.sent = {[dest |-> "user", user |-> u, kind |-> "guideline",
                    content |-> 0]}
    /\ Get(sessions', u) = [state |-> "open", reset_at |-> NoTime]
    /\ OnlyChanges(u)
    /\ Persisted

\* the step ends the life of view v without a press callback returning
TimedOut(v) ==
    /\ v \in DOMAIN views
    /\ views[v].status = "active"
    /\ v \in DOMAIN views' => views'[v].status = "finished"
    /\ presses' = presses

----------------------------------------------------------------------------
\* C1: while a user's session is LOCKED, no step hands content of that user
\* to the staff channel.
C1_NoRelayWhileLocked ==
    [][\A d \in StaffDeliveries :
          d.kind \in {"relay", "relay_id"} =>
              StateOf(sessions, d.user) # "locked"]_vars

\* C2: a session leaves LOCKED only in a step of a staff reply.
C2_OnlyReplyUnlocks ==
    [][\A u \in Users :
          StateOf(sessions, u) = "locked" /\ StateOf(sessions', u) # "locked"
              => \E r \in DOMAIN replies :
                     /\ replies[r].user = u
                     /\ r \notin DOMAIN replies' \/ replies'[r] # replies[r]]_vars

\* C3: a DM that finds the session LOCKED takes the locked branch; the
\* handler changes neither the mapping nor the snapshot, hands nothing to
\* staff, and sends the user the locked notice and nothing else, also when
\* that send fails.
C3_LockedDmStaysLocked ==
    [][\A m \in DOMAIN msgs \cup DOMAIN msgs' :
          /\ Entered(m) /\ StateOf(sessions, msgs'[m].user) = "locked"
                => /\ msgs'[m].branch = "locked"
                   /\ sessions' = sessions /\ file' = file
                   /\ ev'.sent = {}
          /\ Ended(m) /\ msgs[m].branch = "locked"
                => /\ sessions' = sessions /\ file' = file
                   /\ ev'.result \in {"locked", "locked_failed"}
                   /\ ev'.sent = IF ev'.result = "locked"
                                 THEN {[dest |-> "user", user |-> msgs[m].user,
                                        kind |-> "locked", content |-> 0]}
                                 ELSE {}]_vars

\* a DM found the session locked, its notice could not be sent, and the
\* session is still locked
C3_Witness ==
    /\ ev.op = "on_message" /\ ev.result = "locked_failed"
    /\ ev.before.state = "locked"
    /\ StateOf(sessions, ev.user) = "locked"

\* C4: a confirm press that delivers its response relays the prompted
\* content to staff and sets the session LOCKED, and a press sets the
\* session LOCKED only after it handed that content to the staff channel.
C4_LockedOnlyIfRelayed ==
    [][\A p \in DOMAIN presses :
          /\ p \in DOMAIN presses' /\ presses'[p].relayed /\ ~presses[p].relayed
                => [dest |-> "staff", user |-> presses[p].user,
                    kind |-> "relay", content |-> presses[p].view]
                       \in StaffDeliveries
          /\ PressEnded(p) /\ ev'.op = "confirm" /\ ev'.result = "locked"
                => /\ Get(sessions', presses[p].user)
                          = [state |-> "locked", reset_at |-> NoTime]
                   /\ presses[p].relayed]_vars

\* C5: a staff reply that was delivered to the user leaves, when the
\* command ends, that user's session RESOLVED with reset_at one reset delay
\* after a moment of the command, for both entry points.
C5_DeliveredReplyResolves ==
    [][\A r \in DOMAIN replies :
          ReplyEnded(r) /\ replies[r].pc # "send_reply"
              => LET s == Get(sessions', replies[r].user) IN
                 /\ s.state = "resolved"
                 /\ s.reset_at # NoTime
                 /\ fromisoformat(s.reset_at) - RESET_DELAY_SECONDS
                        \in 0..now]_vars

\* C6: a DM that finds no session takes the guideline branch and hands
\* nothing to staff; once the guideline notice is delivered the user's
\* session is OPEN with reset_at empty, and the snapshot holds it.
C6_FirstDmOpens ==
    [][\A m \in DOMAIN msgs \cup DOMAIN msgs' :
          /\ Entered(m) /\ msgs'[m].user \notin DOMAIN sessions
                => /\ msgs'[m].branch = "guideline" /\ ~msgs'[m].cleared
                   /\ sessions' = sessions /\ file' = file
                   /\ ev'.sent = {}
          /\ Ended(m) /\ msgs[m].branch = "guideline" /\ ~msgs[m].cleared
                => /\ StaffDeliveries = {}
                   /\ ev'.result = "guideline"
                         => OpensWithGuideline(msgs[m].user)]_vars

\* a first DM was answered with the guideline and the session is open, in
\* memory and on disk
C6_Witness ==
    /\ ev.op = "on_message" /\ ev.result = "guideline"
    /\ ev.before.state = "None"
    /\ ev.user \in DOMAIN sessions
    /\ sessions[ev.user] = [state |-> "open", reset_at |-> NoTime]
    /\ file.kind = "json"
    /\ file.data[str(ev.user)] = sessions[ev.user]

\* C7: a DM that finds the session OPEN, or RESOLVED before reset_at, takes
\* the prompt branch; the handler sends the user one prompt, leaves the
\* mapping and the snapshot as they are and hands nothing to staff; content
\* reaches staff only from a confirm press on its prompt.
C7_OpenDmPrompts ==
    [][/\ \A m \in DOMAIN msgs \cup DOMAIN msgs' :
            /\ Entered(m)
                /\ (LET s == Get(sessions, msgs'[m].user) IN
                    \/ s.state = "open"
                    \/ /\ s.state = "resolved" /\ s.reset_at # NoTime
                       /\ now < fromisoformat(s.reset_at))
                  => /\ msgs'[m].branch = "prompt"
                     /\ sessions' = sessions /\ file' = file
                     /\ ev'.sent = {}
            /\ Ended(m) /\ msgs[m].branch = "prompt"
                  => /\ sessions' = sessions /\ file' = file
                     /\ StaffDeliveries = {}
                     /\ ev'.result = "prompt"
                           => \E v \in DOMAIN views' \ DOMAIN views :
                                 /\ views'[v] = [user |-> msgs[m].user,
                                                 status |-> "active"]
                                 /\ ev'.sent = {[dest |-> "user",
                                                 user |-> msgs[m].user,
                                                 kind |-> "prompt",
                                                 content |-> v]}
       /\ \A d \in StaffDeliveries :
            d.kind = "relay"
                => \E p \in DOMAIN presses :
                      /\ presses[p].view = d.content
                      /\ presses[p].button = "confirm"
                      /\ presses[p].user = d.user]_vars

\* a DM found the session resolved before its reset time and was answered
\* with a prompt; the session is as it was
C7_Witness ==
    /\ ev.op = "on_message" /\ ev.result = "prompt"
    /\ ev.before.state = "resolved"
    /\ now < fromisoformat(ev.before.reset_at)
    /\ Get(sessions, ev.user) = ev.before

\* C8: a DM that finds the session RESOLVED with reset_at reached (the
\* instant reset_at included) removes the session, writes the mapping
\* without it, and goes on as a first DM: guideline branch, nothing handed
\* to staff, and once the guideline is delivered the session is OPEN.
C8_ExpiredDmStartsOver ==
    [][\A m \in DOMAIN msgs \cup DOMAIN msgs' :
          /\ Entered(m)
              /\ (LET s == Get(sessions, msgs'[m].user) IN
                  /\ s.state = "resolved" /\ s.reset_at # NoTime
                  /\ now >= fromisoformat(s.reset_at))
                => /\ msgs'[m].user \notin DOMAIN sessions'
                   /\ OnlyChanges(msgs'[m].user)
                   /\ Persisted
                   /\ msgs'[m].cleared /\ msgs'[m].branch = "guideline"
                   /\ ev'.sent = {}
          /\ Ended(m) /\ msgs[m].cleared
                => /\ msgs[m].branch = "guideline"
                   /\ StaffDeliveries = {}
                   /\ ev'.result = "guideline"
                         => OpensWithGuideline(msgs[m].user)]_vars

\* a DM arrived at the very instant reset_at and the session is gone, in
\* memory and on disk
C8_Witness ==
    /\ ev.op = "on_message" /\ ev.result = "expired"
    /\ ev.before.state = "resolved"
    /\ fromisoformat(ev.before.reset_at) = now
    /\ ev.user \notin DOMAIN sessions
    /\ file = JsonFile(sessions)

C10_CancelAndStrangersChangeNothing ==
    [][/\ \A p \in DOMAIN presses \cup DOMAIN presses' :
            \/ p \notin DOMAIN presses /\ presses'[p].button = "cancel"
            \/ PressEnded(p) /\ presses[p].button = "cancel"
                => /\ sessions' = sessions /\ file' = file
                   /\ StaffDeliveries = {}
       /\ \A p \in DOMAIN presses' : presses'[p].presser = presses'[p].user
       /\ ev'.op = "press" /\ ev'.result = "ignored"
            => /\ ev'.sent = {}
               /\ UNCHANGED <<sessions, file, locks, modmail_channel_id, now,
                              msgs, views, presses, replies>>]_vars

\* the prompted user pressed No on an open session: told so, still open
C10_Witness ==
    /\ ev.op = "cancel" /\ ev.result = "cancelled"
    /\ ev.before.state = "open"
    /\ StateOf(sessions, ev.user) = "open"
    /\ \E d \in ev.sent : d.kind = "cancelled"

C12_SessionChangesUnderLock ==
    [][\A u \in Users :
          Get(sessions', u) # Get(sessions, u)
              => \E m \in DOMAIN msgs \cup DOMAIN msgs' :
                    \/ Entered(m) /\ msgs'[m].user = u
                    \/ /\ Ended(m) /\ msgs[m].user = u
                       /\ msgs[m].pc = "sending"]_vars

\* C13: a call of the wrapper makes at most 3 attempts and delivers at most
\* one message; it returns only on a successful attempt, the first one;
\* throttled twice and then answered, it delivers exactly one message on
\* the third attempt; throttled three times, it delivers nothing and raises
\* the throttle failure after the third attempt.
C13_RetryStopsAtSuccessOrThird ==
    /\ io.made <= 3 /\ io.delivered <= 1
    /\ io.pc = "returned"
          => /\ io.delivered = 1
             /\ io.outs[io.made] = "ok"
             /\ \A i \in 1..(io.made - 1) : io.outs[i] = "throttled"
    /\ io.pc \in {"returned", "raised"}
          => /\ <<io.outs[1], io.outs[2], io.outs[3]>>
                    = <<"throttled", "throttled", "ok">>
                 => io.pc = "returned" /\ io.made = 3 /\ io.delivered = 1
             /\ <<io.outs[1], io.outs[2], io.outs[3]>>
                    = <<"throttled", "throttled", "throttled">>
                 => /\ io.pc = "raised" /\ io.raised = "throttled"
                    /\ io.made = 3 /\ io.delivered = 0

\* a send was throttled twice and delivered once on the third attempt
C13_Witness ==
    /\ io.pc = "returned" /\ io.made = 3 /\ io.delivered = 1
    /\ io.outs[1] = "throttled" /\ io.outs[2] = "throttled"
    /\ io.outs[3] = "ok"

\* C14: an attempt that fails with anything but the rate-limit signal is the
\* last one: the call raises that failure at once, without sleeping and
\* without another attempt, whichever attempt it was.
C14_OtherFailuresPropagate ==
    \A i \in 1..io.made :
        io.outs[i] \in {"error", "exception"}
            => /\ i = io.made
               /\ io.pc = "raised"
               /\ io.raised = io.outs[i]
               /\ io.delivered = 0

\* a second attempt, made after a throttled first one, failed with an HTTP
\* error that is not a rate limit, and the call raised it
C14_Witness ==
    /\ io.pc = "raised" /\ io.raised = "error" /\ io.made = 2
    /\ io.outs[1] = "throttled"

\* C15: every change of the mapping is followed by a write of the snapshot
\* before its handler ends: a step of a DM handler, a press callback or a
\* timeout that changes the mapping writes it, and a staff reply that
\* changed the mapping has written it when the command ends, also when the
\* command ends by a failed send.
C15_MutationsPersisted ==
    [][/\ sessions' # sessions /\ replies' = replies => Persisted
       /\ \A r \in DOMAIN replies :
            ReplyEnded(r) /\ replies[r].mutated => Persisted]_vars

\* C16: a handler that ends by a failed delivery has left the mapping as it
\* was when the handler began: a DM handler whose send failed has neither
\* created nor removed a session, a confirm callback that failed has not
\* locked, a reply command that failed has not resolved.
C16_FailureLeavesSession ==
    [][/\ \A m \in DOMAIN msgs :
            Ended(m) /\ ev'.result \in {"guideline_failed", "prompt_failed",
                                         "locked_failed"}
                => sessions' = sessions /\ ~msgs[m].cleared
       /\ \A p \in DOMAIN presses :
            PressEnded(p) /\ ev'.result \in {"raised", "rate_limited"}
                => sessions' = sessions
       /\ \A r \in DOMAIN replies :
            ReplyEnded(r) /\ ev'.result \in {"send_reply_failed",
                                              "ack_failed", "send_info_failed"}
                => sessions' = sessions /\ ~replies[r].mutated]_vars

\* C17: a DM that arrives while no modmail channel is configured is answered
\* with a notice to the user; nothing is handed to staff and the mapping
\* and the snapshot stay as they are.
C17_UnconfiguredDmIsAnswered ==
    [][ev'.op = "on_message" /\ ev'.result = "unconfigured"
          => /\ \E d \in ev'.sent : d.dest = "user"
             /\ StaffDeliveries = {}
             /\ sessions' = sessions /\ file' = file]_vars

\* C18: a user who has no session gets one only in the step of a DM handler
\* of that user that took the guideline branch; no staff reply, press or
\* timeout adds a key to the mapping.
C18_OnlyDmCreatesSession ==
    [][\A u \in Users :
          u \notin DOMAIN sessions /\ u \in DOMAIN sessions'
              => \E m \in DOMAIN msgs :
                    /\ Ended(m) /\ msgs[m].user = u
                    /\ msgs[m].branch = "guideline"]_vars

\* C19: a mapping of well-formed sessions that is saved, and loaded by the
\* next process into its empty mapping, comes back as it was, under the
\* same integer keys.
C19_SaveLoadRoundTrip ==
    io.phase = "loaded" /\ io.written
        => /\ DOMAIN sessions = DOMAIN io.memory
           /\ \A k \in DOMAIN sessions : sessions[k] = io.memory[k]

\* two sessions, one under a two-digit id and with reset_at set, came back
\* from the file
C19_Witness ==
    /\ io.phase = "loaded" /\ io.written
    /\ DOMAIN sessions = Users
    /\ \E k \in DOMAIN sessions :
          k >= 10 /\ sessions[k].state = "resolved"
                  /\ sessions[k].reset_at # NoTime

\* C20: after a load from any file, a missing file has given an empty
\* mapping, every entry with an integer key and a well-formed session is in
\* the mapping, and every session in the mapping is well-formed: entries
\* with a bad key or a bad value were skipped.
C20_LoadSkipsMalformed ==
    io.phase = "loaded" /\ ~io.written
        => /\ file.kind = "missing" => sessions = EmptyDict
           /\ \A s \in DOMAIN file.data :
                 CanInt(s) /\ WellFormed(file.data[s])
                     => /\ int(s) \in DOMAIN sessions
                        /\ sessions[int(s)] = file.data[s]
           /\ \A k \in DOMAIN sessions : WellFormed(sessions[k])

\* C21: at every instant of a save, a failed write and a crash in its
\* middle included, the file holds the previous mapping whole or the new
\* mapping whole, and a load after a crash returns one of the two.
C21_NoPartialSnapshot ==
    io.helper = "_persist_sessions_to_file"
        => /\ \/ file = io.previous
              \/ /\ file.kind = "json"
                 /\ DOMAIN file.data = {str(k) : k \in DOMAIN io.mapping}
                 /\ \A k \in DOMAIN io.mapping :
                       file.data[str(k)] = io.mapping[k]
           /\ io.pc = "loaded"
                 => \/ sessions = io.mapping
                    \/ /\ DOMAIN sessions =
                              {int(s) : s \in DOMAIN io.previous.data}
                       /\ \A s \in DOMAIN io.previous.data :
                             sessions[int(s)] = io.previous.data[s]

\* C22: while a DM handler of user a is suspended in its send, holding a's
\* lock, a DM of another user b does not wait for it: it gets past b's lock
\* at once when no DM of b is ahead of it, its branch is the one b's own
\* session calls for, its send leads to b's session being opened when it
\* was the guideline, and none of b's steps touches a's session, a's lock
\* or a's handler.
C22_UsersIndependent ==
    [][\A a \in Users : \A b \in Users \ {a} :
         (\E h \in DOMAIN msgs : msgs[h].user = a /\ msgs[h].pc = "sending")
           =>
           /\ \A m \in DOMAIN msgs' :
                 m \notin DOMAIN msgs /\ msgs'[m].user = b
                    => /\ (\A n \in DOMAIN msgs : msgs[n].user # b)
                             => msgs'[m].pc = "sending"
                       /\ msgs'[m].pc = "sending"
                             => msgs'[m].branch =
                                  IF b \in DOMAIN sessions THEN "prompt"
                                  ELSE "guideline"
           /\ \A m \in DOMAIN msgs :
                 msgs[m].user = b /\ (Ended(m) \/ Entered(m))
                    => /\ a \in DOMAIN sessions' <=> a \in DOMAIN sessions
                       /\ a \in DOMAIN sessions => sessions'[a] = sessions[a]
                       /\ locks'[a] = locks[a]
                       /\ \A h \in DOMAIN msgs :
                             msgs[h].user = a
                                => h \in DOMAIN msgs' /\ msgs'[h] = msgs[h]
           /\ \A m \in DOMAIN msgs :
                 /\ msgs[m].user = b /\ Ended(m)
                 /\ msgs[m].branch = "guideline"
                 /\ \E d \in ev'.sent : d.kind = "guideline" /\ d.user = b
                 => b \in DOMAIN sessions' /\ sessions'[b].state = "open"
      ]_vars

\* the DM of one user has just been answered with the guideline and opened
\* their session while the handler of another user's DM is still suspended
\* in its send, that user having no session yet
C22_Witness ==
    /\ ev.op = "on_message" /\ ev.result = "guideline"
    /\ ev.user \in DOMAIN sessions
    /\ \E h \in DOMAIN msgs :
          /\ msgs[h].user # ev.user
          /\ msgs[h].pc = "sending"
          /\ msgs[h].user \notin DOMAIN sessions
          /\ locks[msgs[h].user].locked
          /\ ~locks[ev.user].locked

\* C23: a prompt's message is relayed to the staff channel at most once:
\* no step relays the message of a prompt while the callback of an earlier
\* Yes press on the same prompt, which has relayed it already, is still
\* running.
C23_OneRelayPerPrompt ==
    [][\A d \in ev'.sent :
          d.dest = "staff" /\ d.kind = "relay"
             => ~\E q \in DOMAIN presses :
                    /\ presses[q].view = d.content
                    /\ presses[q].button = "confirm"
                    /\ presses[q].relayed]_vars

\* C24: the handler of a DM gives the user's lock back in the step in which
\* it ends, whatever its send came to (delivered, raised, retries used up);
\* so a lock that is held is free again later, and a DM that waits for the
\* lock gets past it later.
C24_LockReleased ==
    /\ [][\A m \in DOMAIN msgs :
            Ended(m) /\ msgs[m].pc = "sending"
               => ~locks'[msgs[m].user].locked]_vars
    /\ \A u \in Users : locks[u].locked ~> ~locks[u].locked
    /\ \A m \in 1..MaxInFlight :
          (m \in DOMAIN msgs /\ msgs[m].pc = "waiting")
             ~> (m \in DOMAIN msgs /\ msgs[m].pc = "sending")

\* a send has just failed and its handler is gone; the user's lock is free
\* and the next DM of the same user, which waited for it, is about to run
C24_Witness ==
    /\ ev.op = "on_message"
    /\ ev.result \in {"guideline_failed", "prompt_failed"}
    /\ ~locks[ev.user].locked
    /\ \E m \in DOMAIN msgs :
          /\ msgs[m].user = ev.user
          /\ msgs[m].pc = "waiting"
          /\ Head(locks[ev.user].waiters) = m

\* C25: from the empty mapping, whatever DMs, presses, timeouts and staff
\* replies have happened, every session in the mapping has state open,
\* locked or resolved, and has reset_at set exactly when it is resolved.
C25_SessionsWellFormed ==
    \A u \in DOMAIN sessions :
        /\ DOMAIN sessions[u] = {"state", "reset_at"}
        /\ sessions[u].state \in {"open", "locked", "resolved"}
        /\ sessions[u].reset_at # <<>> <=> sessions[u].state = "resolved"

\* a staff reply has just resolved a session that a Yes press had locked:
\* the session now carries its reset time
C25_Witness ==
    /\ ev.op \in {"prefix", "slash"}
    /\ ev.before.state = "locked"
    /\ ev.user \in DOMAIN sessions
    /\ sessions[ev.user].state = "resolved"
    /\ Len(sessions[ev.user].reset_at) = 3

====
